---- MODULE Spec2Model ----
(***************************************************************************)
(* Model of pybamm/models/lead_acid/composite.py: the constructor          *)
(* Composite.__init__, statement by statement, for NumInst instances whose *)
(* constructors may interleave.  Symbolic expressions are trees (tuples    *)
(* tagged with their node type); dictionaries and ParameterValues objects  *)
(* live in a heap and the instance attributes hold references to them.     *)
(***************************************************************************)
EXTENDS Integers, Sequences, FiniteSets, TLC

VARIABLES
    env,                        \* what the surrounding framework supplies
    pc,                         \* pc[i]: next statement of instance i's __init__
    frame,                      \* frame[i]: local variables of __init__
    heap,                       \* heap[a]: the object at address a
    variables,                  \* variables[i]: reference held by self.variables
    default_parameter_values,   \* reference held by self.default_parameter_values
    trace,                      \* trace[i]: calls, lookups and attribute writes so far
    exc,                        \* exc[i]: the exception that left __init__, if any
    evald                       \* last numerical evaluation of the built expressions

vars == <<env, pc, frame, heap, variables, default_parameter_values, trace, exc, evald>>

----------------------------------------------------------------------------
(* Bounds *)

NumInst == 2
MaxChildren == 4
MaxConc == 2
MaxCd == 2
MaxCurrent == 2
MaxKappa == 2
WidthDen == 4

Inst == 1..NumInst

----------------------------------------------------------------------------
(* Symbolic expression trees *)

None == <<"None">>

Scalar(n) == <<"Scalar", n>>
Parameter(name) == <<"Parameter", name>>
Variable(name, origin, i) == <<"Variable", name, origin, i>>
SpatialVariable(name, domain) == <<"SpatialVariable", name, domain>>
Integral(e, x) == <<"Integral", e, x>>
Function(f, e) == <<"Function", f, e>>
Concatenation(a, b, c) == <<"Concatenation", a, b, c>>
Add(a, b) == <<"+", a, b>>
Sub(a, b) == <<"-", a, b>>
Mul(a, b) == <<"*", a, b>>
Div(a, b) == <<"/", a, b>>
Pow(a, b) == <<"**", a, b>>
Neg(a) == <<"neg", a>>

children(e) == Tail(e)

----------------------------------------------------------------------------
(* The surrounding framework *)

LeadingKeys == {"c0", "eps0", "eta_0n", "eta_0p", "Phi0", "V0"}
RequiredKeys == LeadingKeys \cup {"c"}

LOQSKeySets == {LeadingKeys} \cup {LeadingKeys \ {k} : k \in LeadingKeys}
ConcKeySets == {{"c"}, {}, {"c", "c0"}, {"c", "N_e"}}
RaisePoints == {"none", "LOQS", "homogeneous_reaction",
                "StefanMaxwellDiffusionWithPorosity", "update", "ParameterValues"}

Envs == [loqsKeys : LOQSKeySets, concKeys : ConcKeySets,
         nChildren : 2..MaxChildren, raises : RaisePoints]

\* variables of the leading-order model built by instance i's call LOQS()
LOQSVariables(i) ==
    [k \in env.loqsKeys |->
        IF k = "eps0"
        THEN <<"Concatenation">> \o
             [n \in 1..env.nChildren |-> <<"Variable", "eps0", "LOQS", i, n>>]
        ELSE Variable(k, "LOQS", i)]

\* variables of the diffusion submodel built by instance i
ConcVariables(i) ==
    [k \in env.concKeys |-> Variable(k, "StefanMaxwellDiffusionWithPorosity", i)]

\* dict.update: the entries of e are added to d, replacing those with the same key
DictUpdate(d, e) ==
    [k \in (DOMAIN d) \cup (DOMAIN e) |-> IF k \in DOMAIN e THEN e[k] ELSE d[k]]

EmptyDict == [k \in {} |-> None]

DefaultCsv == "input/parameters/lead-acid/default.csv"

\* the table the loader reads from a CSV file
CsvTable(filename) ==
    [k \in {"current scale", "ln"} |-> <<filename, k>>]

\* pybamm.ParameterValues(base_parameters, optional_parameters)
ParameterValues(filename, optional) ==
    [kind |-> "ParameterValues", filename |-> filename,
     table |-> DictUpdate(CsvTable(filename), optional)]

----------------------------------------------------------------------------
(* Heap *)

Sites == {"BaseModel.variables", "BaseModel.default_parameter_values",
          "submodel.default_parameter_values", "L124", "L127"}
Addr == Inst \X Sites
NoRef == <<0, "unset">>
Free == [kind |-> "free"]
Dict(items) == [kind |-> "dict", items |-> items]

\* the dictionary self.variables refers to
Vars(i) == heap[variables[i]].items

----------------------------------------------------------------------------
(* Locals of __init__ *)

Locals == {"loqs_model", "j", "conc_model", "c0", "eps0", "eps_0n", "eps_0s",
           "eps_0p", "eta_0n", "eta_0p", "Phi0", "V0", "c",
           "c1", "Phi_1n", "Phi_1s", "Phi_1p", "Phi1", "V1"}

EmptyFrame == [l \in Locals |-> None]

NoExc == <<"none", "">>

Init ==
    /\ env \in Envs
    /\ pc = [i \in Inst |-> "L46"]
    /\ frame = [i \in Inst |-> EmptyFrame]
    /\ heap = [a \in Addr |-> Free]
    /\ variables = [i \in Inst |-> NoRef]
    /\ default_parameter_values = [i \in Inst |-> NoRef]
    /\ trace = [i \in Inst |-> <<>>]
    /\ exc = [i \in Inst |-> NoExc]
    /\ evald = [kind |-> "none"]

\* the statement at label at has run: log it and continue at next
Goto(i, next, event) ==
    /\ pc' = [pc EXCEPT ![i] = next]
    /\ trace' = [trace EXCEPT ![i] = Append(@, event)]
    /\ exc' = exc

\* an exception leaves __init__: nothing catches it
Raise(i, type, what, event) ==
    /\ pc' = [pc EXCEPT ![i] = "raised"]
    /\ trace' = [trace EXCEPT ![i] = Append(@, event)]
    /\ exc' = [exc EXCEPT ![i] = <<type, what>>]

----------------------------------------------------------------------------
(* Composite.__init__, one action per statement *)

\* BaseModel.__init__: the objects the base class gives a new model
BaseModelVariables == Dict(EmptyDict)
BaseModelDefaults == ParameterValues("BaseModel", EmptyDict)

\* L46  super().__init__(): the instance gets its own empty variables
\* dictionary and the base class's default parameter set
SuperInit(i) ==
    /\ pc[i] = "L46"
    /\ heap' = [heap EXCEPT
                  ![<<i, "BaseModel.variables">>] = BaseModelVariables,
                  ![<<i, "BaseModel.default_parameter_values">>] = BaseModelDefaults]
    /\ variables' = [variables EXCEPT ![i] = <<i, "BaseModel.variables">>]
    /\ default_parameter_values' =
         [default_parameter_values EXCEPT
            ![i] = <<i, "BaseModel.default_parameter_values">>]
    /\ Goto(i, "L49", <<"call", "BaseModel.__init__">>)
    /\ UNCHANGED <<env, frame, evald>>

\* L49  loqs_model = pybamm.lead_acid.LOQS()
GetLOQS(i) ==
    /\ pc[i] = "L49"
    /\ IF env.raises = "LOQS"
       THEN /\ Raise(i, "Error", "LOQS", <<"call", "LOQS">>)
            /\ frame' = frame
       ELSE /\ frame' = [frame EXCEPT ![i]["loqs_model"] = <<"LOQS", LOQSVariables(i)>>]
            /\ Goto(i, "L51", <<"call", "LOQS">>)
    /\ UNCHANGED <<env, heap, variables, default_parameter_values, evald>>

\* L51  j = pybamm.interface.homogeneous_reaction()
GetReaction(i) ==
    /\ pc[i] = "L51"
    /\ IF env.raises = "homogeneous_reaction"
       THEN /\ Raise(i, "Error", "homogeneous_reaction", <<"call", "homogeneous_reaction">>)
            /\ frame' = frame
       ELSE /\ frame' = [frame EXCEPT ![i]["j"] = <<"homogeneous_reaction", i>>]
            /\ Goto(i, "L52", <<"call", "homogeneous_reaction">>)
    /\ UNCHANGED <<env, heap, variables, default_parameter_values, evald>>

\* mutant: the submodel is given a reaction current other than j
ReactionArgOther(i) == <<"homogeneous_reaction", 0>>

\* L52  the argument j of the diffusion submodel
ReactionArg(i) == frame[i]["j"]

\* L52  conc_model = pybamm.electrolyte.StefanMaxwellDiffusionWithPorosity(j)
GetConcModel(i) ==
    /\ pc[i] = "L52"
    /\ IF env.raises = "StefanMaxwellDiffusionWithPorosity"
       THEN /\ Raise(i, "Error", "StefanMaxwellDiffusionWithPorosity",
                     <<"call", "StefanMaxwellDiffusionWithPorosity">>)
            /\ frame' = frame
       ELSE /\ frame' = [frame EXCEPT ![i]["conc_model"] =
                           <<"StefanMaxwellDiffusionWithPorosity",
                             ReactionArg(i), ConcVariables(i)>>]
            /\ Goto(i, "L55", <<"call", "StefanMaxwellDiffusionWithPorosity">>)
    /\ UNCHANGED <<env, heap, variables, default_parameter_values, evald>>

\* BaseModel.update(*submodels): each submodel's variables are merged, in
\* argument order, into the dictionary self.variables refers to
MergeSubmodels(d, submodels) ==
    IF Len(submodels) = 2
    THEN DictUpdate(DictUpdate(d, submodels[1]), submodels[2])
    ELSE DictUpdate(d, submodels[1])

\* mutant: self.update(loqs_model), the diffusion submodel is left out
UpdateArgsLoqsOnly(i) == <<frame[i]["loqs_model"][2]>>

\* L55  self.update(loqs_model, conc_model)
UpdateArgs(i) ==
    <<frame[i]["loqs_model"][2], frame[i]["conc_model"][3]>>

Update(i) ==
    /\ pc[i] = "L55"
    /\ IF env.raises = "update"
       THEN /\ Raise(i, "Error", "update", <<"call", "update">>)
            /\ UNCHANGED <<heap, default_parameter_values>>
       ELSE /\ \E installs \in BOOLEAN :
                 \* the merge may also install a submodel's default parameter set
                 IF installs
                 THEN /\ heap' = [heap EXCEPT
                            ![variables[i]] = Dict(MergeSubmodels(Vars(i), UpdateArgs(i))),
                            ![<<i, "submodel.default_parameter_values">>] =
                                ParameterValues("submodel", EmptyDict)]
                      /\ default_parameter_values' =
                           [default_parameter_values EXCEPT
                              ![i] = <<i, "submodel.default_parameter_values">>]
                 ELSE /\ heap' = [heap EXCEPT
                            ![variables[i]] = Dict(MergeSubmodels(Vars(i), UpdateArgs(i)))]
                      /\ UNCHANGED default_parameter_values
            /\ Goto(i, "L58", <<"call", "update">>)
    /\ UNCHANGED <<env, frame, variables, evald>>

\* mutant: local = self.variables.get(key), a missing key gives None
LookupOrNone(i, at, key, local, next) ==
    /\ pc[i] = at
    /\ frame' = [frame EXCEPT ![i][local] =
                    IF key \in DOMAIN Vars(i) THEN Vars(i)[key] ELSE None]
    /\ Goto(i, next, <<"get", key>>)
    /\ UNCHANGED <<env, heap, variables, default_parameter_values, evald>>

\* local = self.variables[key]: a missing key raises KeyError
Lookup(i, at, key, local, next) ==
    /\ pc[i] = at
    /\ IF key \in DOMAIN Vars(i)
       THEN /\ frame' = [frame EXCEPT ![i][local] = Vars(i)[key]]
            /\ Goto(i, next, <<"get", key>>)
       ELSE /\ Raise(i, "KeyError", key, <<"get", key>>)
            /\ frame' = frame
    /\ UNCHANGED <<env, heap, variables, default_parameter_values, evald>>

\* L58  c0 = self.variables["c0"]
GetC0(i) == Lookup(i, "L58", "c0", "c0", "L59")

\* L59  eps0 = self.variables["eps0"]
GetEps0(i) == Lookup(i, "L59", "eps0", "eps0", "L60")

\* mutant: eps_0n, eps_0p = eps0.children, two names for three children
UnpackEps0Two(i) ==
    /\ pc[i] = "L60"
    /\ LET ch == children(frame[i]["eps0"]) IN
       IF Len(ch) = 2
       THEN /\ frame' = [frame EXCEPT ![i]["eps_0n"] = ch[1],
                                      ![i]["eps_0p"] = ch[2]]
            /\ Goto(i, "L61", <<"unpack", "eps0">>)
       ELSE /\ Raise(i, "ValueError", "eps0.children", <<"unpack", "eps0">>)
            /\ frame' = frame
    /\ UNCHANGED <<env, heap, variables, default_parameter_values, evald>>

\* L60  eps_0n, eps_0s, eps_0p = eps0.children
UnpackEps0(i) ==
    /\ pc[i] = "L60"
    /\ LET ch == children(frame[i]["eps0"]) IN
       IF Len(ch) = 3
       THEN /\ frame' = [frame EXCEPT ![i]["eps_0n"] = ch[1],
                                      ![i]["eps_0s"] = ch[2],
                                      ![i]["eps_0p"] = ch[3]]
            /\ Goto(i, "L61", <<"unpack", "eps0">>)
       ELSE /\ Raise(i, "ValueError", "eps0.children", <<"unpack", "eps0">>)
            /\ frame' = frame
    /\ UNCHANGED <<env, heap, variables, default_parameter_values, evald>>

\* L61  eta_0n = self.variables["eta_0n"]
GetEta0n(i) == Lookup(i, "L61", "eta_0n", "eta_0n", "L62")

\* L62  eta_0p = self.variables["eta_0p"]
GetEta0p(i) == Lookup(i, "L62", "eta_0p", "eta_0p", "L63")

\* L63  Phi0 = self.variables["Phi0"]
GetPhi0(i) == Lookup(i, "L63", "Phi0", "Phi0", "L64")

\* L64  V0 = self.variables["V0"]
GetV0(i) == Lookup(i, "L64", "V0", "V0", "L66")

\* L66  c = self.variables["c"]
GetC(i) == Lookup(i, "L66", "c", "c", "L69")

----------------------------------------------------------------------------
(* L68-L121: the derived expressions, as functions of the locals f *)

\* L69-L71  independent variables
xn == SpatialVariable("x", "negative electrode")
xs == SpatialVariable("x", "separator")
xp == SpatialVariable("x", "positive electrode")

\* L74-L77  parameters
ln == Parameter("ln")
ls == Parameter("ls")
lp == Parameter("lp")
Cd == Parameter("Cd")

\* L79-L89  functions
icell == Parameter("icell")
kappa(c0, eps) == <<"kappa", c0, eps>>
kappa_0n(f) == kappa(f["c0"], f["eps_0n"])
kappa_0s(f) == kappa(f["c0"], f["eps_0s"])
kappa_0p(f) == kappa(f["c0"], f["eps_0p"])
chi0(f) == <<"chi", f["c0"]>>
j0_0n(f) == <<"j0n", f["c0"]>>
j0_0p(f) == <<"j0p", f["c0"]>>
j0_1n == Scalar(1)
j0_1p == Scalar(1)
dUPbdc(c0) == <<"dUPbdc", c0>>
dUPbO2dc(c0) == <<"dUPbO2dc", c0>>

\* mutant: c1 = (c - c0) * Cd
c1Times(f) == Mul(Sub(f["c"], f["c0"]), Cd)

\* L92  c1 = (c - c0) / Cd
c1(f) == Div(Sub(f["c"], f["c0"]), Cd)

\* L95-L102
cbar_1n(f) == Div(Integral(c1(f), xn), ln)
j0bar_1n == Div(Integral(j0_1n, xn), ln)
An(f) ==
    Add(Sub(Sub(Div(Mul(j0bar_1n, Function("tanh", f["eta_0n"])), j0_0n(f)),
                Mul(dUPbdc(f["c0"]), cbar_1n(f))),
            Mul(Div(chi0(f), f["c0"]), cbar_1n(f))),
        Div(Mul(icell, ln), Mul(Scalar(6), kappa_0n(f))))

\* L104  Phi_1n = -icell * xn ** 2 / (2 * ln * kappa_0n)
Phi_1n(f) ==
    Div(Mul(Neg(icell), Pow(xn, Scalar(2))), Mul(Mul(Scalar(2), ln), kappa_0n(f)))

\* mutant: the factor 2 of the electrode term is dropped
Phi_1sNoHalf(f) ==
    Mul(Neg(icell), Add(Div(Sub(xs, ln), kappa_0s(f)), Div(ln, kappa_0n(f))))

\* L105  Phi_1s = -icell * ((xs - ln) / kappa_0s + ln / (2 * kappa_0n))
Phi_1s(f) ==
    Mul(Neg(icell),
        Add(Div(Sub(xs, ln), kappa_0s(f)), Div(ln, Mul(Scalar(2), kappa_0n(f)))))

\* L106-L110
Phi_1p(f) ==
    Mul(Neg(icell),
        Add(Add(Div(ln, Mul(Scalar(2), kappa_0n(f))), Div(ls, kappa_0s(f))),
            Div(Sub(Pow(lp, Scalar(2)), Pow(Sub(Scalar(1), xp), Scalar(2))),
                Mul(Mul(Scalar(2), lp), kappa_0p(f)))))

\* L111  Phi1 = chi0 / c0 * c1 + pybamm.Concatenation(Phi_1n, Phi_1s, Phi_1p) + An
Phi1(f) ==
    Add(Add(Mul(Div(chi0(f), f["c0"]), c1(f)),
            Concatenation(Phi_1n(f), Phi_1s(f), Phi_1p(f))),
        An(f))

\* L114-L121
cbar_1p(f) == Div(Integral(c1(f), xp), lp)
Phibar_1p(f) == Div(Integral(Phi1(f), xp), lp)
j0bar_1p == Div(Integral(j0_1p, xp), lp)
V1(f) ==
    Sub(Add(Phibar_1p(f), Mul(dUPbO2dc(f["c0"]), cbar_1p(f))),
        Div(Mul(j0bar_1p, Function("tanh", f["eta_0p"])), j0_0p(f)))

\* L68-L121 as one step: only locals are assigned
Derive(i) ==
    /\ pc[i] = "L69"
    /\ frame' = [frame EXCEPT ![i]["c1"] = c1(frame[i]),
                              ![i]["Phi_1n"] = Phi_1n(frame[i]),
                              ![i]["Phi_1s"] = Phi_1s(frame[i]),
                              ![i]["Phi_1p"] = Phi_1p(frame[i]),
                              ![i]["Phi1"] = Phi1(frame[i]),
                              ![i]["V1"] = V1(frame[i])]
    /\ Goto(i, "L124", <<"derive", "L68-L121">>)
    /\ UNCHANGED <<env, heap, variables, default_parameter_values, evald>>

\* L124  the dictionary literal {"c": c, "Phi": Phi0 + Cd * Phi1, "V": V0 + Cd * V1}
NewVariables(f) ==
    [k \in {"c", "Phi", "V"} |->
        CASE k = "c" -> f["c"]
          [] k = "Phi" -> Add(f["Phi0"], Mul(Cd, f["Phi1"]))
          [] k = "V" -> Add(f["V0"], Mul(Cd, f["V1"]))]

\* mutant: the object is a class-level one, shared by all instances
SharedObject(i, site) == <<1, site>>

\* where the object a statement of instance i creates is allocated
NewObject(i, site) == <<i, site>>

\* mutant: self.variables.update({...}), the merged dictionary is extended
AssignVariablesInPlace(i) ==
    /\ pc[i] = "L124"
    /\ heap' = [heap EXCEPT ![variables[i]] =
                   Dict(DictUpdate(Vars(i), NewVariables(frame[i])))]
    /\ Goto(i, "L127", <<"set", "variables">>)
    /\ UNCHANGED <<env, frame, variables, default_parameter_values, evald>>

\* L124  self.variables = {...}: a new dictionary is bound to the attribute
AssignVariables(i) ==
    /\ pc[i] = "L124"
    /\ heap' = [heap EXCEPT ![NewObject(i, "L124")] = Dict(NewVariables(frame[i]))]
    /\ variables' = [variables EXCEPT ![i] = NewObject(i, "L124")]
    /\ Goto(i, "L127", <<"set", "variables">>)
    /\ UNCHANGED <<env, frame, default_parameter_values, evald>>

\* mutant: no override is passed to the loader
DefaultsOverrideNone == EmptyDict

\* L127-L129  the arguments of pybamm.ParameterValues
DefaultsFile == DefaultCsv
DefaultsOverride == [k \in {"current scale"} |-> Scalar(1)]

\* L127-L129  self.default_parameter_values = pybamm.ParameterValues(...)
AssignDefaults(i) ==
    /\ pc[i] = "L127"
    /\ IF env.raises = "ParameterValues"
       THEN /\ Raise(i, "Error", "ParameterValues", <<"call", "ParameterValues">>)
            /\ UNCHANGED <<heap, default_parameter_values>>
       ELSE /\ heap' = [heap EXCEPT ![NewObject(i, "L127")] =
                           ParameterValues(DefaultsFile, DefaultsOverride)]
            /\ default_parameter_values' =
                 [default_parameter_values EXCEPT ![i] = NewObject(i, "L127")]
            /\ Goto(i, "done", <<"set", "default_parameter_values">>)
    /\ UNCHANGED <<env, frame, variables, evald>>

\* Composite.__init__ of instance i
Constructor(i) ==
    \/ SuperInit(i)
    \/ GetLOQS(i)
    \/ GetReaction(i)
    \/ GetConcModel(i)
    \/ Update(i)
    \/ GetC0(i)
    \/ GetEps0(i)
    \/ UnpackEps0(i)
    \/ GetEta0n(i)
    \/ GetEta0p(i)
    \/ GetPhi0(i)
    \/ GetV0(i)
    \/ GetC(i)
    \/ Derive(i)
    \/ AssignVariables(i)
    \/ AssignDefaults(i)

\* one Composite() call, under every behaviour of the framework
NextOne == Constructor(1)

Spec == Init /\ [][NextOne]_vars

\* a constructor is straight-line synchronous code: once called it keeps running
LiveSpec == Spec /\ WF_vars(NextOne)

\* NumInst Composite() calls whose statements interleave
Next == \E i \in Inst : Constructor(i)

ConcEnvs ==
    {e \in Envs : /\ e.loqsKeys \in {LeadingKeys, LeadingKeys \ {"V0"}}
                  /\ e.concKeys = {"c"}
                  /\ e.nChildren = 3
                  /\ e.raises \in {"none", "ParameterValues"}}

InitConc == Init /\ env \in ConcEnvs

ConcSpec == InitConc /\ [][Next]_vars

----------------------------------------------------------------------------
(* Numerical evaluation of the expression trees, in exact rationals <<n, d>> *)

RECURSIVE GCD(_, _)
GCD(a, b) == IF b = 0 THEN a ELSE GCD(b, a % b)
Abs(a) == IF a < 0 THEN -a ELSE a

\* lowest terms, positive denominator
RNorm(q) ==
    LET g == GCD(Abs(q[1]), Abs(q[2]))
        sgn == IF q[2] < 0 THEN -1 ELSE 1
    IN <<sgn * (q[1] \div g), sgn * (q[2] \div g)>>

Rat(n, d) == RNorm(<<n, d>>)
RAdd(a, b) == RNorm(<<a[1] * b[2] + b[1] * a[2], a[2] * b[2]>>)
RSub(a, b) == RNorm(<<a[1] * b[2] - b[1] * a[2], a[2] * b[2]>>)
RMul(a, b) == RNorm(<<a[1] * b[1], a[2] * b[2]>>)
RDiv(a, b) == RNorm(<<a[1] * b[2], a[2] * b[1]>>)
RECURSIVE RPow(_, _)
RPow(a, n) == IF n = 0 THEN <<1, 1>> ELSE RMul(a, RPow(a, n - 1))

\* the value of expression e where v gives the spatial coordinate (v.x), the
\* parameters and variables by name (v.par) and the conductivity of each
\* subdomain (v.kappa, indexed by the porosity child it is computed from)
RECURSIVE Eval(_, _)
Eval(e, v) ==
    CASE e[1] = "Scalar" -> <<e[2], 1>>
      [] e[1] = "Parameter" -> v.par[e[2]]
      [] e[1] = "Variable" -> v.par[e[2]]
      [] e[1] = "SpatialVariable" -> v.x
      [] e[1] = "kappa" -> v.kappa[e[3][5]]
      [] e[1] = "neg" -> LET a == Eval(e[2], v) IN RSub(<<0, 1>>, a)
      [] e[1] \in {"+", "-", "*", "/", "**"} ->
            LET a == Eval(e[2], v)
                b == Eval(e[3], v)
            IN CASE e[1] = "+" -> RAdd(a, b)
                 [] e[1] = "-" -> RSub(a, b)
                 [] e[1] = "*" -> RMul(a, b)
                 [] e[1] = "/" -> RDiv(a, b)
                 [] e[1] = "**" -> RPow(a, b[1])

ParNames == {"c", "c0", "Cd", "icell", "ln", "ls", "lp"}
One == <<1, 1>>
Valuation(x, par, kap) ==
    [x |-> x, par |-> [n \in ParNames |-> IF n \in DOMAIN par THEN par[n] ELSE One],
     kappa |-> kap]

\* c0 + Cd * c1 against the published c, at concentrations cv, c0v and Cd = cd
EvaluateConcentration(i) ==
    /\ pc[i] = "done"
    /\ evald.kind = "none"
    /\ \E cv \in 0..MaxConc, c0v \in 0..MaxConc, cd \in (-MaxCd..MaxCd) \ {0} :
         LET v == Valuation(One,
                     [n \in {"c", "c0", "Cd"} |->
                         CASE n = "c" -> <<cv, 1>>
                           [] n = "c0" -> <<c0v, 1>>
                           [] n = "Cd" -> <<cd, 1>>],
                     <<One, One, One>>)
         IN evald' = [kind |-> "concentration", inst |-> i,
                      c |-> cv, c0 |-> c0v, Cd |-> cd,
                      c1 |-> Eval(frame[i]["c1"], v),
                      recomposed |-> Eval(Add(frame[i]["c0"], Mul(Cd, frame[i]["c1"])), v),
                      published |-> Eval(Vars(i)["c"], v)]
    /\ UNCHANGED <<env, pc, frame, heap, variables, default_parameter_values, trace, exc>>

\* the three pieces of the first-order potential at the ends of their domains,
\* for current ic, conductivities kn, ks, kp and widths a/WidthDen, b/WidthDen
\* and the rest of the cell
EvaluatePotential(i) ==
    /\ pc[i] = "done"
    /\ evald.kind = "none"
    /\ \E ic \in -MaxCurrent..MaxCurrent, kn \in 1..MaxKappa, ks \in 1..MaxKappa,
          kp \in 1..MaxKappa, a \in 1..(WidthDen - 2), b \in 1..(WidthDen - 2) :
         /\ a + b < WidthDen
         /\ LET wn == Rat(a, WidthDen)
                ws == Rat(b, WidthDen)
                wp == Rat(WidthDen - a - b, WidthDen)
                par == [n \in {"icell", "ln", "ls", "lp"} |->
                          CASE n = "icell" -> <<ic, 1>>
                            [] n = "ln" -> wn
                            [] n = "ls" -> ws
                            [] n = "lp" -> wp]
                kap == <<<<kn, 1>>, <<ks, 1>>, <<kp, 1>>>>
                at(x) == Valuation(x, par, kap)
            IN evald' = [kind |-> "potential", inst |-> i,
                         icell |-> ic, kappa |-> <<kn, ks, kp>>, ln |-> wn, ls |-> ws, lp |-> wp,
                         n_at_0 |-> Eval(frame[i]["Phi_1n"], at(<<0, 1>>)),
                         n_at_ln |-> Eval(frame[i]["Phi_1n"], at(wn)),
                         s_at_ln |-> Eval(frame[i]["Phi_1s"], at(wn)),
                         s_at_lnls |-> Eval(frame[i]["Phi_1s"], at(RAdd(wn, ws))),
                         p_at_1mlp |-> Eval(frame[i]["Phi_1p"], at(RSub(One, wp))),
                         p_at_1 |-> Eval(frame[i]["Phi_1p"], at(One))]
    /\ UNCHANGED <<env, pc, frame, heap, variables, default_parameter_values, trace, exc>>

\* one instance is constructed and its expressions are then evaluated
NextEval ==
    \/ Constructor(1)
    \/ EvaluateConcentration(1)
    \/ EvaluatePotential(1)

EvalSpec == Init /\ [][NextEval]_vars

----------------------------------------------------------------------------
(* Vocabulary of the properties *)

Done(i) == pc[i] = "done"

\* positions of event ev in the trace of instance i
Idx(i, ev) == {n \in 1..Len(trace[i]) : trace[i][n] = ev}
Has(i, ev) == Idx(i, ev) # {}

\* every occurrence of b has an occurrence of a before it
Precedes(i, a, b) == \A n \in Idx(i, b) : \E m \in Idx(i, a) : m < n

\* every occurrence of a comes before every occurrence of b
AllBefore(i, a, b) == \A m \in Idx(i, a), n \in Idx(i, b) : m < n

\* update has returned
Merged(i) == Has(i, <<"call", "update">>) /\ exc[i] # <<"Error", "update">>
Reassigned(i) == Has(i, <<"set", "variables">>)

\* the dictionary update merged the submodels into
MergedVars(i) == heap[<<i, "BaseModel.variables">>].items

\* the variable names the two submodels of instance i supply
SubmodelKeys(i) ==
    (DOMAIN frame[i]["loqs_model"][2]) \cup (DOMAIN frame[i]["conc_model"][3])

FinalKeys == {"c", "Phi", "V"}

\* the lookups of L58-L66 in program order, and whether each one fails on
\* the merged dictionary
LookupOrder ==
    <<"c0", "eps0", "eps0.children", "eta_0n", "eta_0p", "Phi0", "V0", "c">>
Fails(i, n) ==
    IF LookupOrder[n] = "eps0.children"
    THEN /\ "eps0" \in DOMAIN MergedVars(i)
         /\ Len(children(MergedVars(i)["eps0"])) # 3
    ELSE LookupOrder[n] \notin DOMAIN MergedVars(i)
FaultySteps(i) == {n \in 1..Len(LookupOrder) : Fails(i, n)}
Fault(i) == Merged(i) /\ FaultySteps(i) # {}
FirstFault(i) == CHOOSE n \in FaultySteps(i) : \A m \in FaultySteps(i) : n <= m
FaultExc(i) ==
    <<IF LookupOrder[FirstFault(i)] = "eps0.children" THEN "ValueError" ELSE "KeyError",
      LookupOrder[FirstFault(i)]>>

\* the external collaborators all succeed
EnvOK ==
    /\ env.raises = "none"
    /\ RequiredKeys \subseteq (env.loqsKeys \cup env.concKeys)
    /\ env.nChildren = 3

\* the one sequence of steps of a successful construction
FixedSequence ==
    <<  <<"call", "BaseModel.__init__">>, <<"call", "LOQS">>,
        <<"call", "homogeneous_reaction">>,
        <<"call", "StefanMaxwellDiffusionWithPorosity">>, <<"call", "update">>,
        <<"get", "c0">>, <<"get", "eps0">>, <<"unpack", "eps0">>,
        <<"get", "eta_0n">>, <<"get", "eta_0p">>, <<"get", "Phi0">>,
        <<"get", "V0">>, <<"get", "c">>, <<"derive", "L68-L121">>,
        <<"set", "variables">>, <<"set", "default_parameter_values">>  >>
IsPrefix(p, q) == Len(p) <= Len(q) /\ SubSeq(q, 1, Len(p)) = p

----------------------------------------------------------------------------
(* Properties *)

\* C1: once __init__ has returned, self.variables refers to the same
\* dictionary with the same entries in every later state: no step of any
\* constructor rebinds the attribute or changes a key or value of the mapping.
C1_VariablesFrozen ==
    [][\A i \in Inst :
         Done(i) => /\ variables'[i] = variables[i]
                    /\ heap'[variables[i]] = heap[variables[i]]]_vars

\* an instance is complete while another has just bound its own final mapping
C1_Witness == \E i, j \in Inst : Done(i) /\ pc[j] = "L127"

\* C2 as stated: when __init__ has returned, every variable name supplied by
\* a submodel is a key of the model's variables mapping.
C2_SubmodelKeysKept ==
    \A i \in Inst : Done(i) => SubmodelKeys(i) \subseteq DOMAIN Vars(i)

\* C2 amended: from the return of update until self.variables is reassigned,
\* every variable name supplied by either submodel is a key of the mapping;
\* when __init__ has returned, none of them is a key unless it is c, Phi or V.
C2_MergedUntilReassigned ==
    \A i \in Inst :
        /\ (Merged(i) /\ ~Reassigned(i)) => SubmodelKeys(i) \subseteq DOMAIN Vars(i)
        /\ Done(i) => (SubmodelKeys(i) \cap DOMAIN Vars(i)) \subseteq FinalKeys

\* all lookups done on a merged mapping that holds a variable nothing reads
C2_Witness == \E i \in Inst : pc[i] = "L124" /\ "N_e" \in DOMAIN Vars(i)

\* C3: if the merged mapping lacks a looked-up key, or eps0 does not have
\* three children, __init__ never gets past the lookups: neither
\* self.variables nor self.default_parameter_values is assigned, the instance
\* is never complete, and the exception that leaves it is the one of the
\* first failing lookup.
C3_FaultPropagates ==
    \A i \in Inst :
        Fault(i) =>
            /\ pc[i] \notin {"L69", "L124", "L127", "done"}
            /\ ~Has(i, <<"set", "variables">>)
            /\ ~Has(i, <<"set", "default_parameter_values">>)
            /\ variables[i] = <<i, "BaseModel.variables">>
            /\ heap[<<i, "L124">>] = Free
            /\ heap[<<i, "L127">>] = Free
            /\ pc[i] = "raised" => exc[i] = FaultExc(i)

\* both kinds of fault have happened
C3_Witness ==
    \E i \in Inst :
        /\ Fault(i)
        /\ pc[i] = "raised"
        /\ exc[i] \in {<<"ValueError", "eps0.children">>, <<"KeyError", "c">>}

\* C4: when every collaborator succeeds, the constructor only ever runs a
\* prefix of one fixed sequence of steps, never raises, and eventually
\* completes with c, Phi and V defined.
C4_StraightLine ==
    /\ EnvOK => [](IsPrefix(trace[1], FixedSequence) /\ pc[1] # "raised")
    /\ EnvOK => <>(/\ Done(1)
                   /\ FinalKeys \subseteq DOMAIN Vars(1)
                   /\ trace[1] = FixedSequence)

C4_Witness == EnvOK /\ Done(1) /\ trace[1] = FixedSequence

\* C5: the reaction current is created before the diffusion submodel and is
\* the one passed to it; both submodels exist when update is called; update
\* is called at most once, and exactly once before any lookup; every lookup
\* comes before self.variables is reassigned; the derived quantities are
\* computed after the lookups and the default parameters are stored last.
C5_Order ==
    \A i \in Inst :
        LET upd == <<"call", "update">>
            setv == <<"set", "variables">>
            setd == <<"set", "default_parameter_values">>
            der == <<"derive", "L68-L121">>
            conc == <<"call", "StefanMaxwellDiffusionWithPorosity">>
        IN
        /\ Precedes(i, <<"call", "homogeneous_reaction">>, conc)
        /\ frame[i]["conc_model"][1] # "None" =>
              /\ frame[i]["j"][1] # "None"
              /\ frame[i]["conc_model"][2] = frame[i]["j"]
        /\ Precedes(i, <<"call", "LOQS">>, upd)
        /\ Precedes(i, conc, upd)
        /\ Merged(i) => /\ frame[i]["loqs_model"][1] = "LOQS"
                        /\ frame[i]["conc_model"][1] = "StefanMaxwellDiffusionWithPorosity"
        /\ Cardinality(Idx(i, upd)) <= 1
        /\ \A k \in RequiredKeys :
              /\ Precedes(i, upd, <<"get", k>>)
              /\ AllBefore(i, <<"get", k>>, setv)
              /\ Precedes(i, <<"get", k>>, der)
        /\ Precedes(i, der, setv)
        /\ Precedes(i, setv, setd)
        /\ Done(i) => Cardinality(Idx(i, upd)) = 1 /\ Has(i, setv) /\ Has(i, setd)

C5_Witness == \E i \in Inst : Done(i) /\ Len(trace[i]) = Len(FixedSequence)

\* C6: after a successful construction default_parameter_values is the table
\* loaded from input/parameters/lead-acid/default.csv with "current scale"
\* set to 1, whatever update or the base class installed; its assignment is
\* the last write of the constructor and follows the update call.
C6_Defaults ==
    \A i \in Inst :
        Done(i) =>
            LET pv == heap[default_parameter_values[i]] IN
            /\ pv.kind = "ParameterValues"
            /\ pv.filename = "input/parameters/lead-acid/default.csv"
            /\ DOMAIN pv.table = DOMAIN CsvTable(pv.filename)
            /\ pv.table["current scale"] = Scalar(1)
            /\ \A k \in (DOMAIN pv.table) \ {"current scale"} :
                  pv.table[k] = CsvTable(pv.filename)[k]
            /\ trace[i][Len(trace[i])] = <<"set", "default_parameter_values">>
            /\ Precedes(i, <<"call", "update">>, <<"set", "default_parameter_values">>)

\* complete, although update had installed a submodel's parameter set
C6_Witness ==
    \E i \in Inst :
        Done(i) /\ heap[<<i, "submodel.default_parameter_values">>] # Free

\* C7: two instances never refer to the same variables mapping or the same
\* default_parameter_values object, and a step of one constructor leaves the
\* other instance's two attributes and the objects they refer to unchanged.
C7_NoSharing ==
    /\ [](\A i, j \in Inst :
            i # j =>
              /\ variables[i] # NoRef => variables[i] # variables[j]
              /\ default_parameter_values[i] # NoRef =>
                    default_parameter_values[i] # default_parameter_values[j])
    /\ [][\A i, j \in Inst :
            (i # j /\ pc'[i] # pc[i]) =>
              /\ variables'[j] = variables[j]
              /\ default_parameter_values'[j] = default_parameter_values[j]
              /\ variables[j] # NoRef => heap'[variables[j]] = heap[variables[j]]
              /\ default_parameter_values[j] # NoRef =>
                    heap'[default_parameter_values[j]] = heap[default_parameter_values[j]]]_vars

C7_Witness ==
    /\ \A i \in Inst : Done(i)
    /\ variables[1] # variables[2]
    /\ default_parameter_values[1] # default_parameter_values[2]

\* C8: for all values of c and c0 and every nonzero Cd, c0 + Cd * c1 has the
\* value of the published c (exact arithmetic), and the expression published
\* under "c" is the one that was read from the merged mapping under "c".
C8_Decomposition ==
    /\ evald.kind = "concentration" => evald.recomposed = evald.published
    /\ \A i \in Inst : Done(i) => Vars(i)["c"] = MergedVars(i)["c"]

C8_Witness ==
    /\ evald.kind = "concentration"
    /\ evald.Cd = MaxCd
    /\ evald.c # evald.c0
    /\ evald.c1 # <<0, 1>>

\* C9: after a successful construction the keys of the variables mapping are
\* exactly c, Phi and V.
C9_FinalKeys == \A i \in Inst : Done(i) => DOMAIN Vars(i) = FinalKeys

\* complete, and the merged mapping held a variable that nothing reads
C9_Witness ==
    \E i \in Inst :
        Done(i) /\ "N_e" \in DOMAIN MergedVars(i) /\ "c0" \in DOMAIN MergedVars(i)

\* C10: the first-order potential is continuous at x = ln and at
\* x = ln + ls = 1 - lp, and Phi_1n vanishes at x = 0, for every current,
\* positive conductivities and positive widths summing to 1.
C10_Continuous ==
    evald.kind = "potential" =>
        /\ evald.n_at_ln = evald.s_at_ln
        /\ evald.s_at_lnls = evald.p_at_1mlp
        /\ evald.n_at_0 = <<0, 1>>

\* a nonzero current through unequal conductivities and unequal widths
C10_Witness ==
    /\ evald.kind = "potential"
    /\ evald.icell # 0
    /\ evald.kappa[1] # evald.kappa[2]
    /\ evald.ln # evald.ls
    /\ evald.n_at_ln # <<0, 1>>
    /\ evald.s_at_lnls # evald.s_at_ln

====
